---- MODULE Spec2Model ----
(***************************************************************************)
(* LinearRegressionwithErrors.fit (src/regression/linear_model.py).        *)
(*                                                                         *)
(* Arrays are modelled by their shapes (sequences of positive integers)    *)
(* and, for the two error arrays, a flag telling whether some entry is     *)
(* negative.  The probabilistic engine is an external collaborator: a      *)
(* declaration is accepted when its parameter shapes broadcast (numpy      *)
(* rules), the sampler may fail or return a trace keyed by the names of    *)
(* the declared non-observed variables.                                    *)
(***************************************************************************)
EXTENDS Integers, Sequences, FiniteSets, TLC

\* ------------------------------------------------------------------ bounds
\* largest length of any array axis (D, N, len(y), ...)
MaxDim == 2
\* number of fit calls begun in one behaviour
MaxCalls == 2

\* --------------------------------------------------------- program values
\* line 14: sample_kwargs={'draws': 1000, 'target_accept': 0.9}
DefaultDraws == 1000
\* 0.9, written in hundredths
DefaultTargetAcceptPct == 90

DefaultSampleKwargs ==
    [k \in {"draws", "target_accept"} |->
        IF k = "draws" THEN DefaultDraws ELSE DefaultTargetAcceptPct]

Threads == {"t1", "t2"}
Insts == {"r1", "r2"}

NoDict == [k \in {} |-> 0]
NoTrace == [model |-> 0, varnames |-> {}]
NoArgs == [X |-> <<>>, y |-> <<>>, y_error |-> <<>>, x_error |-> <<>>,
           xneg |-> FALSE, yneg |-> FALSE, given |-> FALSE, kw |-> NoDict]

VARIABLES
    pc,             \* position of each caller thread inside fit
    self,           \* the instance fit was called on
    args,           \* the arguments as the caller passed them
    call,           \* identity of this call (and of its pm.Model object)
    X,              \* local X (rebound on line 16)
    x_error,        \* local x_error (rebound on line 17)
    sample_kwargs,  \* which dict object the parameter is bound to
    model,          \* the variables declared so far in this call's pm.Model
    invoked,        \* how often this call has invoked pm.sample
    passed,         \* the keyword arguments pm.sample was invoked with
    ret,            \* what pm.sample returned to this call
    result,         \* outcome seen by the caller of fit
    trace,          \* the attribute self.trace of every instance
    ncalls,         \* calls begun so far
    fit_defaults    \* the one dict object held in fit's default arguments

vars == <<pc, self, args, call, X, x_error, sample_kwargs, model, invoked,
          passed, ret, result, trace, ncalls, fit_defaults>>

\* ----------------------------------------------------------- array shapes
Dims == 1..MaxDim
Shapes1 == {<<n>> : n \in Dims}
Shapes2 == {<<d, n>> : d \in Dims, n \in Dims}

\* np.atleast_2d: a 0-d input becomes (1, 1), a 1-d input (N,) becomes (1, N)
AtLeast2d(s) ==
    IF Len(s) = 0 THEN <<1, 1>>
    ELSE IF Len(s) = 1 THEN <<1, s[1]>>
    ELSE s

\* X.T / ksi.T: the axes reversed
Transpose(s) == [k \in 1..Len(s) |-> s[Len(s) + 1 - k]]

\* tt.dot(vector of length D, matrix of shape (D, N)) has shape (N,)
DotShape(a, b) == <<b[2]>>

Min(a, b) == IF a < b THEN a ELSE b

\* numpy broadcasting of two operands: trailing axes are equal or one is 1
BroadcastOK(a, b) ==
    \A k \in 1..Min(Len(a), Len(b)) :
        LET x == a[Len(a) + 1 - k]
            y == b[Len(b) + 1 - k]
        IN  x = y \/ x = 1 \/ y = 1

\* a parameter of a free variable is broadcast up to the declared shape
BroadcastsTo(p, s) ==
    /\ Len(p) <= Len(s)
    /\ \A k \in 1..Len(p) :
        LET x == p[Len(p) + 1 - k]
            y == s[Len(s) + 1 - k]
        IN  x = y \/ x = 1

\* ------------------------------------------------- the declared variables
NumDecls == 9

\* lines 21-40: the name given to the k-th declared variable
VarNameIntercept(k) ==
    <<"slope", "intercept", "int_std", "tau", "mu", "ksi", "eta", "xi", "yi">>[k]

VarName(k) ==
    <<"slope", "inter", "int_std", "tau", "mu", "ksi", "eta", "xi", "yi">>[k]

\* line 32: shape=X.T.shape
KsiShapeUntransposed(Xs) == Xs

KsiShape(Xs) == Transpose(Xs)

NoScale == [kind |-> "none", of |-> "none", shape |-> <<>>, neg |-> FALSE]

Free(k, dist, shape, mu, scale) ==
    [name |-> VarName(k), dist |-> dist, shape |-> shape, mu |-> mu,
     scale |-> scale, observed |-> FALSE, data |-> <<>>]

Observed(k, shape, mu, scale, data) ==
    [name |-> VarName(k), dist |-> "Normal", shape |-> shape, mu |-> mu,
     scale |-> scale, observed |-> TRUE, data |-> data]

\* The k-th declaration of fit, given the (coerced) local X and x_error and
\* the arguments y, y_error; xneg/yneg: x_error / y_error has a negative entry.
Decl(k, Xs, xe, a) ==
    LET D == <<Xs[1]>>
        ksi == KsiShape(Xs)
        etamu == DotShape(D, Transpose(ksi))
    IN  CASE k = 1 -> Free(k, "Flat", D, <<>>, NoScale)
          [] k = 2 -> Free(k, "Flat", <<>>, <<>>, NoScale)
          [] k = 3 -> Free(k, "HalfFlat", <<>>, <<>>, NoScale)
          [] k = 4 -> Free(k, "HalfFlat", D, <<>>, NoScale)
          [] k = 5 -> Free(k, "Normal", D, <<>>,
                           [kind |-> "sd", of |-> "tau", shape |-> D, neg |-> FALSE])
          [] k = 6 -> Free(k, "Normal", ksi, D,
                           [kind |-> "tau", of |-> "tau", shape |-> D, neg |-> FALSE])
          [] k = 7 -> Free(k, "Normal", a.y, etamu,
                           [kind |-> "sd", of |-> "int_std", shape |-> <<>>, neg |-> FALSE])
          [] k = 8 -> Observed(k, Xs, Transpose(ksi),
                           [kind |-> "sd", of |-> "x_error", shape |-> xe, neg |-> a.xneg],
                           Xs)
          [] k = 9 -> Observed(k, a.y, a.y,
                           [kind |-> "sd", of |-> "y_error", shape |-> a.y_error, neg |-> a.yneg],
                           a.y)

\* The engine's check of one declaration: the parameters of a free variable
\* broadcast up to its declared shape; the parameters of an observed variable
\* broadcast against the observed data.
EngineAccepts(d) ==
    IF d.observed
    THEN /\ BroadcastOK(d.mu, d.data)
         /\ BroadcastOK(d.scale.shape, d.data)
         /\ BroadcastOK(d.mu, d.scale.shape)
    ELSE /\ BroadcastsTo(d.mu, d.shape)
         /\ BroadcastsTo(d.scale.shape, d.shape)

\* pm.sample's result: keyed by the name of every declared non-observed variable
TraceVarnames(m) == {m[k].name : k \in {j \in 1..Len(m) : ~m[j].observed}}

\* ------------------------------------------------------------------ inputs
CallerDicts ==
    { [k \in {"draws"} |-> 500],
      [k \in {"target_accept"} |-> 80],
      [k \in {"draws", "target_accept"} |-> IF k = "draws" THEN 500 ELSE 80] }

KwChoices ==
    {[given |-> FALSE, kw |-> NoDict]} \cup {[given |-> TRUE, kw |-> d] : d \in CallerDicts}

Input(Xs, ys, ye, xe, xn, yn, kc) ==
    [X |-> Xs, y |-> ys, y_error |-> ye, x_error |-> xe,
     xneg |-> xn, yneg |-> yn, given |-> kc.given, kw |-> kc.kw]

\* every combination of shapes, non-negative errors, sample_kwargs omitted
ShapeInputs ==
    { Input(Xs, ys, ye, xe, FALSE, FALSE, [given |-> FALSE, kw |-> NoDict]) :
        Xs \in Shapes1 \cup Shapes2, ys \in Shapes1, ye \in Shapes1,
        xe \in Shapes1 \cup Shapes2 }

\* 1-d X with matching y and errors; every sign of the errors, every sample_kwargs
ConfigInputs ==
    { Input(s, s, s, s, xn, yn, kc) :
        s \in Shapes1, xn \in BOOLEAN, yn \in BOOLEAN, kc \in KwChoices }

SeqInputs == ShapeInputs \cup ConfigInputs

\* the inputs of the concurrent callers
ConcInputs ==
    { Input(<<MaxDim>>, ys, <<MaxDim>>, <<MaxDim>>, FALSE, FALSE, kc) :
        ys \in Shapes1,
        kc \in {[given |-> FALSE, kw |-> NoDict],
                [given |-> TRUE, kw |-> [k \in {"draws"} |-> 500]]} }

\* ------------------------------------------------------------------- state
NoResult == [kind |-> "none", id |-> ""]

Init ==
    /\ pc = [t \in Threads |-> "idle"]
    /\ self = [t \in Threads |-> ""]
    /\ args = [t \in Threads |-> NoArgs]
    /\ call = [t \in Threads |-> 0]
    /\ X = [t \in Threads |-> <<>>]
    /\ x_error = [t \in Threads |-> <<>>]
    /\ sample_kwargs = [t \in Threads |-> "unbound"]
    /\ model = [t \in Threads |-> <<>>]
    /\ invoked = [t \in Threads |-> 0]
    /\ passed = [t \in Threads |-> NoDict]
    /\ ret = [t \in Threads |-> NoTrace]
    /\ result = [t \in Threads |-> NoResult]
    /\ trace = [i \in Insts |-> NoTrace]
    /\ ncalls = 0
    /\ fit_defaults = DefaultSampleKwargs

\* lines 13-14: a caller invokes fit on an instance; the parameter sample_kwargs
\* is bound to the caller's dict, or to the dict of the default arguments
Call(t, inputs) ==
    /\ pc[t] = "idle"
    /\ ncalls < MaxCalls
    /\ \E i \in Insts, a \in inputs :
        /\ self' = [self EXCEPT ![t] = i]
        /\ args' = [args EXCEPT ![t] = a]
        /\ X' = [X EXCEPT ![t] = a.X]
        /\ x_error' = [x_error EXCEPT ![t] = a.x_error]
        /\ sample_kwargs' = [sample_kwargs EXCEPT ![t] = IF a.given THEN "caller" ELSE "default"]
    /\ ncalls' = ncalls + 1
    /\ call' = [call EXCEPT ![t] = ncalls + 1]
    /\ pc' = [pc EXCEPT ![t] = "coerce"]
    /\ UNCHANGED <<model, invoked, passed, ret, result, trace, fit_defaults>>

\* lines 16-19: coerce X and x_error, open a fresh model context
Coerce(t) ==
    /\ pc[t] = "coerce"
    /\ X' = [X EXCEPT ![t] = AtLeast2d(X[t])]
    /\ x_error' = [x_error EXCEPT ![t] = AtLeast2d(x_error[t])]
    /\ model' = [model EXCEPT ![t] = <<>>]
    /\ pc' = [pc EXCEPT ![t] = "declare"]
    /\ UNCHANGED <<self, args, call, sample_kwargs, invoked, passed, ret, result,
                   trace, ncalls, fit_defaults>>

NextDecl(t) == Decl(Len(model[t]) + 1, X[t], x_error[t], args[t])

\* what an exception leaving fit does to the stored traces: nothing
TraceClearedOnFailure(t) == [trace EXCEPT ![self[t]] = NoTrace]

TraceOnFailure(t) == trace

\* an exception leaves fit: no handler, the caller sees it
Raise(t) ==
    /\ pc' = [pc EXCEPT ![t] = "raised"]
    /\ result' = [result EXCEPT ![t] = [kind |-> "raised", id |-> ""]]
    /\ trace' = TraceOnFailure(t)

\* lines 21-40: the next variable is declared
DeclareOK(t) ==
    /\ pc[t] = "declare"
    /\ EngineAccepts(NextDecl(t))
    /\ model' = [model EXCEPT ![t] = Append(@, NextDecl(t))]
    /\ pc' = [pc EXCEPT ![t] = IF Len(model[t]) + 1 = NumDecls THEN "sample" ELSE "declare"]
    /\ UNCHANGED <<self, args, call, X, x_error, sample_kwargs, invoked, passed, ret,
                   result, trace, ncalls, fit_defaults>>

\* lines 21-40: the engine rejects the next declaration
DeclareFail(t) ==
    /\ pc[t] = "declare"
    /\ ~EngineAccepts(NextDecl(t))
    /\ Raise(t)
    /\ UNCHANGED <<self, args, call, X, x_error, sample_kwargs, model, invoked, passed,
                   ret, ncalls, fit_defaults>>

\* line 42: **sample_kwargs
KwContent(t) == IF sample_kwargs[t] = "default" THEN fit_defaults ELSE args[t].kw

\* line 42: pm.sample returns a trace of this call's model
SampleOK(t) ==
    /\ pc[t] = "sample"
    /\ invoked' = [invoked EXCEPT ![t] = @ + 1]
    /\ passed' = [passed EXCEPT ![t] = KwContent(t)]
    /\ ret' = [ret EXCEPT ![t] = [model |-> call[t], varnames |-> TraceVarnames(model[t])]]
    /\ pc' = [pc EXCEPT ![t] = "store"]
    /\ UNCHANGED <<self, args, call, X, x_error, sample_kwargs, model, result, trace,
                   ncalls, fit_defaults>>

\* line 42: pm.sample raises
SampleFail(t) ==
    /\ pc[t] = "sample"
    /\ invoked' = [invoked EXCEPT ![t] = @ + 1]
    /\ passed' = [passed EXCEPT ![t] = KwContent(t)]
    /\ Raise(t)
    /\ UNCHANGED <<self, args, call, X, x_error, sample_kwargs, model, ret, ncalls,
                   fit_defaults>>

\* line 42: the value assigned to self.trace
NewTraceKeepFirst(t) == IF trace[self[t]] = NoTrace THEN ret[t] ELSE trace[self[t]]

NewTrace(t) == ret[t]

\* line 42: self.trace = ...
Store(t) ==
    /\ pc[t] = "store"
    /\ trace' = [trace EXCEPT ![self[t]] = NewTrace(t)]
    /\ pc' = [pc EXCEPT ![t] = "return"]
    /\ UNCHANGED <<self, args, call, X, x_error, sample_kwargs, model, invoked, passed,
                   ret, result, ncalls, fit_defaults>>

\* line 44: return self
ReturnValueTrace(t) == [kind |-> "trace", id |-> ""]

ReturnValue(t) == [kind |-> "instance", id |-> self[t]]

Return(t) ==
    /\ pc[t] = "return"
    /\ result' = [result EXCEPT ![t] = ReturnValue(t)]
    /\ pc' = [pc EXCEPT ![t] = "done"]
    /\ UNCHANGED <<self, args, call, X, x_error, sample_kwargs, model, invoked, passed,
                   ret, trace, ncalls, fit_defaults>>

\* the caller has the outcome; the call's frame is gone
Finish(t) ==
    /\ pc[t] \in {"done", "raised"}
    /\ pc' = [pc EXCEPT ![t] = "idle"]
    /\ self' = [self EXCEPT ![t] = ""]
    /\ args' = [args EXCEPT ![t] = NoArgs]
    /\ call' = [call EXCEPT ![t] = 0]
    /\ X' = [X EXCEPT ![t] = <<>>]
    /\ x_error' = [x_error EXCEPT ![t] = <<>>]
    /\ sample_kwargs' = [sample_kwargs EXCEPT ![t] = "unbound"]
    /\ model' = [model EXCEPT ![t] = <<>>]
    /\ invoked' = [invoked EXCEPT ![t] = 0]
    /\ passed' = [passed EXCEPT ![t] = NoDict]
    /\ ret' = [ret EXCEPT ![t] = NoTrace]
    /\ result' = [result EXCEPT ![t] = NoResult]
    /\ UNCHANGED <<trace, ncalls, fit_defaults>>

\* one caller, calls one after the other
Next ==
    \/ Call("t1", SeqInputs)
    \/ Coerce("t1")
    \/ DeclareOK("t1")
    \/ DeclareFail("t1")
    \/ SampleOK("t1")
    \/ SampleFail("t1")
    \/ Store("t1")
    \/ Return("t1")
    \/ Finish("t1")

Spec == Init /\ [][Next]_vars

\* two callers in two threads
NextConc ==
    \E t \in Threads :
        \/ Call(t, ConcInputs)
        \/ Coerce(t)
        \/ DeclareOK(t)
        \/ DeclareFail(t)
        \/ SampleOK(t)
        \/ SampleFail(t)
        \/ Store(t)
        \/ Return(t)
        \/ Finish(t)

SpecConc == Init /\ [][NextConc]_vars

\* ================================================================ claims
Active == {t \in Threads : pc[t] # "idle"}

\* the documented preconditions of fit, on the coerced shapes
Precondition(a) ==
    LET Xc == AtLeast2d(a.X)
        xe == AtLeast2d(a.x_error)
    IN  /\ Xc[2] = a.y[1]
        /\ a.y[1] = a.y_error[1]
        /\ a.y_error[1] = xe[2]
        /\ Xc[1] = xe[1]

\* C1: a fit call that completes returns the instance it was called on, and at
\* that moment the instance's stored trace is the trace pm.sample returned to
\* this very call.
C1_ReturnsSelfWithItsTrace ==
    \A t \in Threads :
        pc[t] = "done" =>
            /\ result[t] = [kind |-> "instance", id |-> self[t]]
            /\ trace[self[t]] = ret[t]
            /\ ret[t].model = call[t]

C1_Witness ==
    \E t \in Threads :
        /\ pc[t] = "done"
        /\ result[t].id = self[t]
        /\ trace[self[t]].model = call[t]
        /\ call[t] > 0

\* C2 (as claimed): whenever the inputs violate the shape preconditions, fit
\* fails before the sampler is invoked.
C2_ShapeErrorBeforeSampling ==
    \A t \in Active :
        ~Precondition(args[t]) =>
            /\ invoked[t] = 0
            /\ pc[t] \notin {"sample", "store", "return", "done"}

\* C3 (as claimed): with a negative entry in x_error or y_error no random
\* variable is declared and the sampler is not invoked.
C3_NegativeErrorsStopBeforeDeclaration ==
    \A t \in Active :
        (args[t].xneg \/ args[t].yneg) =>
            /\ Len(model[t]) = 0
            /\ invoked[t] = 0

ProducedTraces == {trace[i] : i \in Insts} \cup {ret[t] : t \in Threads}

C5_DeclaredShapes ==
    \A t \in Threads :
        (Len(model[t]) = NumDecls /\ Precondition(args[t])) =>
            LET Xc == AtLeast2d(args[t].X)
                D == Xc[1]
                N == Xc[2]
                m == model[t]
            IN  /\ m[1].shape = <<D>>
                /\ m[2].shape = <<>>
                /\ m[3].shape = <<>>
                /\ m[4].shape = <<D>>
                /\ m[5].shape = <<D>>
                /\ m[6].shape = <<N, D>>
                /\ m[7].shape = <<N>>
                /\ m[8].observed /\ m[8].shape = <<D, N>> /\ m[8].mu = <<D, N>>
                /\ m[8].data = <<D, N>>
                /\ m[9].observed /\ m[9].shape = <<N>>

C5_Witness ==
    \E t \in Threads :
        /\ Len(model[t]) = NumDecls
        /\ Precondition(args[t])
        /\ Len(args[t].X) = 1
        /\ args[t].X[1] > 1
        /\ model[t][6].shape = <<args[t].X[1], 1>>

\* C6: every fit that reaches the assignment to self.trace replaces the stored
\* trace of its instance by the trace pm.sample returned to it, whatever trace
\* an earlier fit left there, and touches no other instance's trace.
C6_FitOverwritesTrace ==
    [][\A t \in Threads :
         (pc[t] = "store" /\ pc'[t] = "return") =>
            /\ trace'[self[t]] = ret[t]
            /\ \A i \in Insts \ {self[t]} : trace'[i] = trace[i]]_vars

\* a later fit is about to assign over the trace an earlier fit left
C6_Witness ==
    \E t \in Threads :
        /\ pc[t] = "store"
        /\ trace[self[t]] # NoTrace
        /\ trace[self[t]] # ret[t]
        /\ ret[t].model = call[t]

\* C7 (as claimed): pm.sample is invoked with draws = 1000 unless the caller
\* supplied draws, and with target_accept = 0.9 unless the caller supplied
\* target_accept.
C7_DefaultsPerOption ==
    \A t \in Threads :
        invoked[t] > 0 =>
            \A k \in {"draws", "target_accept"} :
                /\ k \in DOMAIN passed[t]
                /\ passed[t][k] =
                     IF args[t].given /\ k \in DOMAIN args[t].kw
                     THEN args[t].kw[k]
                     ELSE DefaultSampleKwargs[k]

\* C8: a failure of model construction or of the sampler reaches the caller:
\* the sampler is invoked at most once per call, the caller does not get the
\* instance back, and no stored trace changes.
C8_FailurePropagates ==
    [][\A t \in Threads :
         /\ invoked'[t] <= 1
         /\ (pc[t] # "raised" /\ pc'[t] = "raised") =>
                /\ trace' = trace
                /\ result'[t].kind = "raised"]_vars

C8_Witness ==
    \E t \in Threads :
        /\ pc[t] = "raised"
        /\ invoked[t] = 1
        /\ trace[self[t]] # NoTrace

\* C9 (as claimed): two fit calls in flight on two distinct instances use
\* distinct model contexts and distinct configuration objects, and each leaves
\* on its instance the trace sampled from its own model with its own
\* configuration.
C9_NoSharedObjects ==
    \A t \in Active : \A u \in Active \ {t} :
        self[t] # self[u] =>
            /\ call[t] # call[u]
            /\ ~(/\ sample_kwargs[t] = "default" /\ invoked[t] > 0
                 /\ sample_kwargs[u] = "default" /\ invoked[u] > 0)
            /\ pc[t] \in {"return", "done"} =>
                    /\ trace[self[t]] = ret[t]
                    /\ ret[t].model = call[t]
                    /\ passed[t] = KwContent(t)

\* C10 (as claimed): tau enters mu's prior and ksi's prior under the same
\* parameterization, as a standard deviation.
C10_TauOneParameterization ==
    \A t \in Threads :
        Len(model[t]) >= 6 =>
            /\ model[t][5].name = "mu" /\ model[t][5].scale.of = "tau"
            /\ model[t][6].name = "ksi" /\ model[t][6].scale.of = "tau"
            /\ model[t][5].scale.kind = "sd"
            /\ model[t][6].scale.kind = model[t][5].scale.kind

====
